---------------------------- MODULE Spec2Model ----------------------------
(***************************************************************************)
(* Model of the 5-inch LCD serial driver (src/5inch_driver.py) and of the  *)
(* stand-alone script it was derived from (src/5inch.py).                  *)
(*                                                                         *)
(* Python values are modelled as records [t, v]:                           *)
(*   [t |-> "None",  v |-> <<>>]         None                              *)
(*   [t |-> "str",   v |-> code points]  a text string                     *)
(*   [t |-> "bytes", v |-> bytes]        a bytes / bytearray object        *)
(* A hex string ('01ef69...') is the sequence of its hex digits (0..15).   *)
(***************************************************************************)
EXTENDS Integers, Sequences, FiniteSets, TLC

(***************************************************************************)
(* Bounds of the model (not program constants).                            *)
(***************************************************************************)
\* __del__ invocations on one session
MaxTeardowns == 3
\* ports one session may leave open behind it by connecting again
MaxLeaked == 1
\* send cycles of one update_image call the model follows
MaxCycles == 3
\* longest message handed to SendMSG in the framing specification
MaxMsgLen == 510
\* largest image shape of the full-frame encoder specification
FullMaxRows == 3
FullMaxCols == 84
\* largest image shape (shape[0], shape[1]) of the partial-update encoder
\* specification
UpdMaxRows == 26
UpdMaxCols == 6

(***************************************************************************)
(* Program constants.                                                      *)
(***************************************************************************)
SCREEN_HEIGHT == 800
MESSAGE_MAX_SIZE == 250
\* for i in range(5) in ReadReply
READ_ATTEMPTS == 5
\* image[i:i + 249] in GenerateFullImage
FULL_RUN == 249
\* MSG[i:i + 498] and len(MSG) > 500 in GenerateUpdateImage
UPD_RUN == 498
UPD_JOIN_ABOVE == 500

\* class CMD
Get_Device == <<0, 1, 14, 15, 6, 9, 0, 0, 0, 0, 0, 0, 0, 1, 0, 0, 0, 0, 0, 0, 12, 5, 13, 3>>
Update_IMG == <<12, 12, 14, 15, 6, 9, 0, 0, 0, 0>>
Stop_Video == <<7, 9, 14, 15, 6, 9, 0, 0, 0, 0, 0, 0, 0, 1>>
Display_Full_IMAGE == <<12, 8, 14, 15, 6, 9, 0, 0, 1, 7, 7, 0>>
Query_Render_Status == <<12, 15, 14, 15, 6, 9, 0, 0, 0, 0, 0, 0, 0, 1>>
Restart == <<8, 4, 14, 15, 6, 9, 0, 0, 0, 0, 0, 0, 0, 1>>
\* class Unknown
PreImgCMD == <<2, 12>>
Media_Stop == <<9, 6, 14, 15, 6, 9, 0, 0, 0, 0, 0, 0, 0, 1>>
PostImgCMD == <<8, 6, 14, 15, 6, 9, 0, 0, 0, 0, 0, 0, 0, 1>>
Unknown_OnExit == <<8, 7, 14, 15, 6, 9, 0, 0, 0, 0, 0, 0, 0, 1>>

\* '5e41ef69', the reply of a device that is not initialized yet
NotReadyHex == <<5, 14, 4, 1, 14, 15, 6, 9>>
\* the default PadValue '00' and the '2c' the vendor application pads with
Pad00 == <<0, 0>>
Pad2c == <<2, 12>>

\* text literals of the source, as code points
TXT_media_stop == <<109, 101, 100, 105, 97, 95, 115, 116, 111, 112>>
TXT_full_png_sucess ==
  <<102, 117, 108, 108, 95, 112, 110, 103, 95, 115, 117, 99, 101, 115, 115>>
TXT_needReSend0 == <<110, 101, 101, 100, 82, 101, 83, 101, 110, 100, 58, 48>>

(***************************************************************************)
(* Python values.                                                          *)
(***************************************************************************)
None == [t |-> "None", v |-> <<>>]
PyStr(s) == [t |-> "str", v |-> s]
PyBytes(b) == [t |-> "bytes", v |-> b]

\* truth value of a Python object: None and empty sequences are false
Truthy(x) == x.t # "None" /\ Len(x.v) > 0

(***************************************************************************)
(* Sequence helpers.                                                       *)
(***************************************************************************)
\* s * n for a sequence s
Repeat(s, n) ==
  IF n <= 0 \/ Len(s) = 0 THEN <<>>
  ELSE [k \in 1..(n * Len(s)) |-> s[((k - 1) % Len(s)) + 1]]

\* s.startswith(p)
StartsWith(s, p) == Len(s) >= Len(p) /\ SubSeq(s, 1, Len(p)) = p

\* needle in hay (substring test)
Contains(needle, hay) ==
  \E k \in 0..(Len(hay) - Len(needle)) :
     SubSeq(hay, k + 1, k + Len(needle)) = needle

\* math.ceil(a / b) for a >= 0, b > 0
Ceil(a, b) == (a + b - 1) \div b

\* s.rstrip('\x00')
RECURSIVE RStripNull(_)
RStripNull(s) ==
  IF Len(s) > 0 /\ s[Len(s)] = 0 THEN RStripNull(SubSeq(s, 1, Len(s) - 1)) ELSE s

\* the generator s[i:i + run] for i in range(0, len(s), run): the runs of s
Chunks(s, run) ==
  [j \in 1..Ceil(Len(s), run) |->
     SubSeq(s, ((j - 1) * run) + 1, IF j * run < Len(s) THEN j * run ELSE Len(s))]

\* sep.join(cs): the sequences of cs with sep between each two of them
\* (the recursion halves cs to stay shallow on long streams)
RECURSIVE Join(_, _)
Join(sep, cs) ==
  IF Len(cs) = 0 THEN <<>>
  ELSE IF Len(cs) = 1 THEN cs[1]
  ELSE LET m == Len(cs) \div 2
       IN  Join(sep, SubSeq(cs, 1, m)) \o sep \o Join(sep, SubSeq(cs, m + 1, Len(cs)))

\* sep.join(s[i:i + run] for i in range(0, len(s), run))
JoinRuns(s, run, sep) == Join(sep, Chunks(s, run))

\* bytearray.fromhex(h): defined for an even number of hex digits only
HexOK(h) == Len(h) % 2 = 0
FromHex(h) == [k \in 1..(Len(h) \div 2) |-> 16 * h[2 * k - 1] + h[2 * k]]

\* the hex digits of v >= 0, most significant first, without padding
RECURSIVE HexDigits(_)
HexDigits(v) == IF v < 16 THEN <<v>> ELSE Append(HexDigits(v \div 16), v % 16)

\* f'{v:0<w>x}': at least w digits, never truncated
HexFmt(v, w) == Repeat(<<0>>, w - Len(HexDigits(v))) \o HexDigits(v)

\* the concatenation of the sequences of ss, in order (the recursion
\* halves ss to stay shallow on long streams)
RECURSIVE Flatten(_)
Flatten(ss) ==
  IF Len(ss) = 0 THEN <<>>
  ELSE IF Len(ss) = 1 THEN ss[1]
  ELSE LET m == Len(ss) \div 2
       IN  Flatten(SubSeq(ss, 1, m)) \o Flatten(SubSeq(ss, m + 1, Len(ss)))

(***************************************************************************)
(* bytes.decode('utf-8') (strict) and str(bytes).                          *)
(***************************************************************************)
IsCont(b) == b >= 128 /\ b <= 191

\* the length of the UTF-8 sequence that starts b, or 0 when b does not
\* start with a well-formed sequence (decode raises UnicodeDecodeError)
Utf8Len(b) ==
  LET n == Len(b)
      b1 == b[1]
  IN  IF b1 <= 127 THEN 1
      ELSE IF b1 >= 194 /\ b1 <= 223
        THEN IF n >= 2 /\ IsCont(b[2]) THEN 2 ELSE 0
      ELSE IF b1 >= 224 /\ b1 <= 239
        THEN IF /\ n >= 3
                /\ IsCont(b[2])
                /\ IsCont(b[3])
                /\ (b1 = 224 => b[2] >= 160)
                /\ (b1 = 237 => b[2] <= 159)
             THEN 3 ELSE 0
      ELSE IF b1 >= 240 /\ b1 <= 244
        THEN IF /\ n >= 4
                /\ IsCont(b[2])
                /\ IsCont(b[3])
                /\ IsCont(b[4])
                /\ (b1 = 240 => b[2] >= 144)
                /\ (b1 = 244 => b[2] <= 143)
             THEN 4 ELSE 0
      ELSE 0

\* the code point of the well-formed sequence of length n that starts b
CodePoint(b, n) ==
  CASE n = 1 -> b[1]
    [] n = 2 -> (b[1] - 192) * 64 + (b[2] - 128)
    [] n = 3 -> (b[1] - 224) * 4096 + (b[2] - 128) * 64 + (b[3] - 128)
    [] OTHER -> (b[1] - 240) * 262144 + (b[2] - 128) * 4096
                  + (b[3] - 128) * 64 + (b[4] - 128)

\* whether b.decode('utf-8') returns (TRUE) or raises UnicodeDecodeError
RECURSIVE CanDecode(_)
CanDecode(b) ==
  IF Len(b) = 0 THEN TRUE
  ELSE LET n == Utf8Len(b)
       IN  n > 0 /\ CanDecode(SubSeq(b, n + 1, Len(b)))

\* b.decode('utf-8') for a b that can be decoded: its code points
RECURSIVE Decode(_)
Decode(b) ==
  IF Len(b) = 0 THEN <<>>
  ELSE LET n == Utf8Len(b)
       IN  <<CodePoint(b, n)>> \o Decode(SubSeq(b, n + 1, Len(b)))

\* the character of hex digit d, lower case
HexChar(d) == IF d < 10 THEN 48 + d ELSE 87 + d

\* repr of one byte inside a bytes literal quoted with q
ReprByte(c, q) ==
  IF c = q \/ c = 92 THEN <<92, c>>
  ELSE IF c = 9 THEN <<92, 116>>
  ELSE IF c = 10 THEN <<92, 110>>
  ELSE IF c = 13 THEN <<92, 114>>
  ELSE IF c < 32 \/ c >= 127 THEN <<92, 120, HexChar(c \div 16), HexChar(c % 16)>>
  ELSE <<c>>

\* str(b) of a bytes object: its literal, b'...'
ReprBytes(b) ==
  LET has(c) == \E k \in 1..Len(b) : b[k] = c
      q == IF has(39) /\ ~has(34) THEN 34 ELSE 39
  IN  <<98, q>> \o Flatten([k \in 1..Len(b) |-> ReprByte(b[k], q)]) \o <<q>>

\* str(x)
Str(x) ==
  CASE x.t = "str" -> x.v
    [] x.t = "bytes" -> ReprBytes(x.v)
    [] OTHER -> <<78, 111, 110, 101>>

(***************************************************************************)
(* SendMSG: message conversion and padding (the part before the I/O).      *)
(* A message is [t |-> "hex", v |-> hex digits] (a str or an Enum value)   *)
(* or [t |-> "bytes", v |-> bytes].                                        *)
(***************************************************************************)
HexMsg(h) == [t |-> "hex", v |-> h]

\* if type(MSG) is str: MSG = bytearray.fromhex(MSG) raises ValueError on
\* an odd number of digits
MsgConverts(MSG) == MSG.t = "hex" => HexOK(MSG.v)
MsgBytes(MSG) == IF MSG.t = "hex" THEN FromHex(MSG.v) ELSE MSG.v

\* PadMSG with the block count rounded down instead of up
PadMSG_floor(M, PadValue) ==
  LET MsgSize == Len(M)
  IN  IF MsgSize % MESSAGE_MAX_SIZE # 0
      THEN M \o Repeat(FromHex(PadValue),
                       (MESSAGE_MAX_SIZE * (MsgSize \div MESSAGE_MAX_SIZE)) - MsgSize)
      ELSE M

\* the bytes handed to lcd_serial.write for message bytes M
PadMSG(M, PadValue) ==
  LET MsgSize == Len(M)
  IN  IF MsgSize % MESSAGE_MAX_SIZE # 0
      THEN M \o Repeat(FromHex(PadValue),
                       (MESSAGE_MAX_SIZE * Ceil(MsgSize, MESSAGE_MAX_SIZE)) - MsgSize)
      ELSE M

(***************************************************************************)
(* Images.  A decoded image (cv2.imread) is [rows, cols, ch, seed]: an     *)
(* array of shape (rows, cols, ch) whose element [r][c][k] (0-based) is    *)
(* Elem(img, r, c, k); distinct elements hold distinct values as long as   *)
(* the image has fewer than 256 of them.                                   *)
(***************************************************************************)
Image(rows, cols, ch, seed) == [rows |-> rows, cols |-> cols, ch |-> ch, seed |-> seed]

Elem(img, r, c, k) == (img.seed + ((r * img.cols) + c) * img.ch + k) % 256

\* cv2.cvtColor(image, cv2.COLOR_BGR2BGRA) when image.shape[2] < 4
ToBGRA(img) == IF img.ch < 4 THEN [img EXCEPT !.ch = 4] ELSE img
ElemBGRA(img, r, c, k) ==
  IF img.ch < 4 THEN (IF k < img.ch THEN Elem(img, r, c, k) ELSE 255)
  ELSE Elem(img, r, c, k)

\* bytearray(image): the elements in row-major order
ImageBytes(img) ==
  LET a == ToBGRA(img)
  IN  [n \in 1..(a.rows * a.cols * a.ch) |->
         ElemBGRA(img, ((n - 1) \div a.ch) \div a.cols,
                       ((n - 1) \div a.ch) % a.cols,
                       (n - 1) % a.ch)]

\* GenerateFullImage with runs of 250 bytes
GenerateFullImage_250(img) == JoinRuns(ImageBytes(img), FULL_RUN + 1, <<0>>)

GenerateFullImage(img) == JoinRuns(ImageBytes(img), FULL_RUN, <<0>>)

\* image[a][b] is read with the index pair <<a, b>>; numpy raises IndexError
\* unless a < shape[0] and b < shape[1]
InBounds(img, ix) == ix[1] >= 0 /\ ix[1] < img.rows /\ ix[2] >= 0 /\ ix[2] < img.cols

\* the pixel read for column w of row record h: the driver reads
\* image[w][h], src/5inch.py reads image[h][w]
DriverIndex(w, h) == <<w, h>>
ScriptIndex(w, h) == <<h, w>>

\* f'{image[a][b][0]:02x}' + f'{image[a][b][1]:02x}' + f'{image[a][b][2]:02x}'
Triplet(img, ix) ==
  HexFmt(Elem(img, ix[1], ix[2], 0), 2)
    \o HexFmt(Elem(img, ix[1], ix[2], 1), 2)
    \o HexFmt(Elem(img, ix[1], ix[2], 2), 2)

\* the header of row record h: the offset and the width
RowHeader(img, x, y, h) ==
  HexFmt(((x + h) * SCREEN_HEIGHT) + y, 6) \o HexFmt(img.rows, 4)

\* the hex text of one row record of the driver's GenerateUpdateImage:
\* width = image.shape[0], height = image.shape[1], pixel image[w][h]
UpdateRow(img, x, y, h) ==
  LET width == img.rows
  IN  RowHeader(img, x, y, h)
        \o Flatten([w1 \in 1..width |-> Triplet(img, DriverIndex(w1 - 1, h))])

\* MSG before the separators and the trailer are added
UpdateStream(img, x, y) ==
  LET height == img.cols
  IN  Flatten([h1 \in 1..height |-> UpdateRow(img, x, y, h1 - 1)])

\* a pixel access of the loops raises IndexError
UpdateRaises(img) ==
  \E h \in 0..(img.cols - 1), w \in 0..(img.rows - 1) : ~InBounds(img, DriverIndex(w, h))

\* UPD_Size, the '00' separators and the trailer, for the row stream MSG
\* with UPD_Size computed from the stream after the separators were added
Finish_sized_late(MSG) ==
  LET joined == IF Len(MSG) > UPD_JOIN_ABOVE THEN JoinRuns(MSG, UPD_RUN, <<0, 0>>)
                ELSE MSG
  IN  [MSG |-> joined \o <<14, 15, 6, 9>>, UPD_Size |-> HexFmt((Len(joined) \div 2) + 2, 4)]

\* UPD_Size, the '00' separators and the trailer, for the row stream MSG
Finish(MSG) ==
  LET UPD_Size == HexFmt((Len(MSG) \div 2) + 2, 4)
      joined == IF Len(MSG) > UPD_JOIN_ABOVE THEN JoinRuns(MSG, UPD_RUN, <<0, 0>>)
                ELSE MSG
  IN  [MSG |-> joined \o <<14, 15, 6, 9>>, UPD_Size |-> UPD_Size]

\* GenerateUpdateImage returns (MSG, UPD_Size)
GenerateUpdateImage(img, x, y) == Finish(UpdateStream(img, x, y))

\* GenerateUpdateImage of src/5inch.py: the same with image[h][w]
Script_UpdateRow(img, x, y, h) ==
  LET width == img.rows
  IN  RowHeader(img, x, y, h)
        \o Flatten([w1 \in 1..width |-> Triplet(img, ScriptIndex(w1 - 1, h))])

Script_UpdateStream(img, x, y) ==
  LET height == img.cols
  IN  Flatten([h1 \in 1..height |-> Script_UpdateRow(img, x, y, h1 - 1)])

Script_UpdateRaises(img) ==
  \E h \in 0..(img.cols - 1), w \in 0..(img.rows - 1) : ~InBounds(img, ScriptIndex(w, h))

Script_GenerateUpdateImage(img, x, y) == Finish(Script_UpdateStream(img, x, y))

(***************************************************************************)
(* ReadReply: one pass of its read loop, and the check after the loop.     *)
(***************************************************************************)
NotReady == FromHex(NotReadyHex)

\* IsNotReady without the test of the prefix, as in src/5inch.py
IsNotReady_unchecked(rawReply) == FALSE

\* response.startswith(binascii.unhexlify('5e41ef69'))
IsNotReady(rawReply) == StartsWith(rawReply, NotReady)

\* response.decode('utf-8').rstrip('\x00'), for a reply that decodes
Parsed(rawReply) == PyStr(RStripNull(Decode(rawReply)))

\* the pass raises UnicodeDecodeError
IterRaises(rawReply) == ~IsNotReady(rawReply) /\ ~CanDecode(rawReply)

\* the value of response after a pass that does not raise
IterResponse(rawReply) ==
  IF IsNotReady(rawReply) THEN PyBytes(rawReply) ELSE Parsed(rawReply)

\* if response: break
IterBreaks(rawReply) == ~IsNotReady(rawReply) /\ Truthy(Parsed(rawReply))

\* LoopEnds with one read too many (range(6))
LoopEnds_six(rawReply, n) == IterBreaks(rawReply) \/ n >= READ_ATTEMPTS + 1

\* the loop is left after the pass that made the n-th read
LoopEnds(rawReply, n) == IterBreaks(rawReply) \/ n >= READ_ATTEMPTS

\* if expect: if str(response) != str(expect): if fail: raise Exception
ExpectRaises(resp, expect, fail) ==
  Truthy(expect) /\ Str(resp) # Str(expect) /\ fail

(***************************************************************************)
(* Device discovery.                                                       *)
(***************************************************************************)
\* HandleAutodetect that takes the first device found when there are several
HandleAutodetect_first(port, known_devices) ==
  IF port = None
  THEN (IF Len(known_devices) >= 1 THEN known_devices[1] ELSE port)
  ELSE port

\* _handle_autodetect: the value of self.com_port after it, for the list
\* known_devices that autodetect_known_devices() returned
HandleAutodetect(port, known_devices) ==
  IF port = None
  THEN (IF Len(known_devices) = 1 THEN known_devices[1] ELSE port)
  ELSE port

(***************************************************************************)
(* The operations of FiveInchDriver as instruction sequences.  An          *)
(* instruction is [k, msg, pad, expect, fail]; k names the statement.      *)
(***************************************************************************)
Instr(k) == [k |-> k, msg |-> HexMsg(<<>>), pad |-> Pad00, expect |-> None, fail |-> TRUE]
\* SendMSG(self.lcd_serial, MSG) and SendMSG(self.lcd_serial, MSG, PadValue)
ISend(m) == [Instr("send") EXCEPT !.msg = m]
ISendPad(m, p) == [Instr("send") EXCEPT !.msg = m, !.pad = p]
\* ReadReply(self.lcd_serial), ReadReply(self.lcd_serial, expect, fail)
IRead == Instr("read")
IReadExpect(e, f) == [Instr("read") EXCEPT !.expect = e, !.fail = f]

connect ==
  << Instr("open"),
     ISend(HexMsg(Get_Device)),
     IRead,
     Instr("set_connected"),
     ISend(HexMsg(Stop_Video)),
     IRead,
     ISend(HexMsg(Media_Stop)),
     IReadExpect(PyStr(TXT_media_stop), TRUE) >>

\* OnExit(lcd_serial): SendMSG(lcd_serial, Unknown.OnExit); lcd_serial.close()
OnExit == << ISend(HexMsg(Unknown_OnExit)), Instr("close") >>

\* __del__: if self.connected: OnExit(self.lcd_serial)
__del__ == << Instr("if_connected") >> \o OnExit

\* show_image that does not read the acknowledgement of the image
show_image_unacked(img) ==
  << ISendPad(HexMsg(PreImgCMD), Pad2c),
     ISend(HexMsg(Display_Full_IMAGE)),
     ISend(PyBytes(GenerateFullImage(img))),
     ISend(HexMsg(PostImgCMD)),
     IRead,
     ISend(HexMsg(Query_Render_Status)),
     IRead >>

\* show_image whose acknowledgement is read with fail=False
show_image_lenient(img) ==
  << ISendPad(HexMsg(PreImgCMD), Pad2c),
     ISend(HexMsg(Display_Full_IMAGE)),
     ISend(PyBytes(GenerateFullImage(img))),
     IReadExpect(PyStr(TXT_full_png_sucess), FALSE),
     ISend(HexMsg(PostImgCMD)),
     IRead,
     ISend(HexMsg(Query_Render_Status)),
     IRead >>

show_image(img) ==
  << ISendPad(HexMsg(PreImgCMD), Pad2c),
     ISend(HexMsg(Display_Full_IMAGE)),
     ISend(PyBytes(GenerateFullImage(img))),
     IReadExpect(PyStr(TXT_full_png_sucess), TRUE),
     ISend(HexMsg(PostImgCMD)),
     IRead,
     ISend(HexMsg(Query_Render_Status)),
     IRead >>

\* the body of the while loop of update_image, then its test of the reply
update_image(x, y, img) ==
  LET g == GenerateUpdateImage(img, x, y)
  IN  << ISendPad(HexMsg(PreImgCMD), Pad2c),
         ISend(HexMsg(Update_IMG \o g.UPD_Size)),
         ISend(HexMsg(g.MSG)),
         IRead,
         ISend(HexMsg(PostImgCMD)),
         IRead,
         ISend(HexMsg(Query_Render_Status)),
         IRead,
         Instr("until") >>

restart == << ISend(HexMsg(Restart)), Instr("clear_connected") >>

(***************************************************************************)
(* The inputs of the model.                                                *)
(***************************************************************************)
\* device paths: '/dev/a', '/dev/b'
DevA == PyStr(<<47, 100, 101, 118, 47, 97>>)
DevB == PyStr(<<47, 100, 101, 118, 47, 98>>)
\* what autodetect_known_devices() may return
Discoveries == { <<>>, <<DevA>>, <<DevA, DevB>> }
\* the com_port argument of FiveInchDriver(...)
PortArgs == { None, DevA }

\* what one lcd_serial.read(INPUT_MESSAGE_SIZE) may return
R_timeout == <<>>
R_nulls == <<0, 0, 0>>
R_not_ready == NotReady \o <<0>>
R_media_stop == TXT_media_stop \o <<0, 0>>
R_full_png_sucess == TXT_full_png_sucess
\* '(needReSend:0)' and '(needReSend:1)'
R_resend0 == <<40>> \o TXT_needReSend0 \o <<41>>
R_resend1 == <<40, 110, 101, 101, 100, 82, 101, 83, 101, 110, 100, 58, 49, 41>>
\* a binary reply, 01 ef 69: not UTF-8
R_binary == <<1, 239, 105>>
Replies ==
  { R_timeout, R_nulls, R_not_ready, R_media_stop, R_full_png_sucess,
    R_resend0, R_resend1, R_binary }

\* the decoded images behind the png paths the caller passes; the third
\* is a region of 150 x 150 pixels, the fourth a buffer of shape (2, 0, 3),
\* which has no pixel
Images ==
  << Image(1, 2, 3, 10), Image(2, 2, 4, 200), Image(150, 150, 3, 200), Image(2, 0, 3, 0) >>
\* the png the caller passes to show_image
ShowImages == { 1, 2 }
\* the (x, y, png) the caller passes to update_image
UpdateArgs == { <<0, 0, 1>>, <<3, 5, 2>>, <<0, 0, 3>>, <<0, 0, 4>> }
\* the (expect, fail) of a direct ReadReply call
ExpectArgs == { None, PyStr(<<>>), PyStr(TXT_media_stop) }

(***************************************************************************)
(* State.                                                                  *)
(***************************************************************************)
VARIABLES
  com_port,        \* self.com_port: None or a path
  connected,       \* self.connected
  lcd_serial,      \* self.lcd_serial: "None", or the Serial object's state,
                   \* "open" or "closed"
  inbuf,           \* the input buffer of the port: "empty", "fresh" (bytes
                   \* that arrived after the last write) or "stale" (it
                   \* holds bytes that were pending before the last write)
  leaked,          \* Serial objects this session opened, still open, that
                   \* self.lcd_serial no longer refers to
  op,              \* the operation running, or the last one that ran
  args,            \* its arguments
  pc,              \* the instruction it is at; 0 when no operation runs
  exc,             \* "none", or the exception that ended the last operation
  looping,         \* inside the read loop of a ReadReply call
  i,               \* reads made by the ReadReply call running or last run
  raw,             \* what the last lcd_serial.read returned
  response,        \* ReadReply's response (the caller's reply once returned)
  success_update,  \* update_image's flag
  statusLog,       \* update_image: per finished send cycle, what the status
                   \* reply was: "zero" (holds needReSend:0), "other", "bytes"
  wire,            \* the transport calls of the operation, in order
  teardowns,       \* __del__ invocations on this session
  exitWrites,      \* OnExit frames this session wrote to a transport
  restarted,       \* restart() ran and connect() has not run since
  handshaken,      \* a connect() of this session returned normally
  discovery,       \* connect: whether _handle_autodetect ran the discovery,
                   \* and the list autodetect_known_devices() returned
  sm_in,           \* framing specification: the message and pad value
  sm_out,          \* framing specification: the bytes written
  enc_in,          \* encoder specifications: the decoded image and (x, y)
  full_out,        \* what GenerateFullImage returned
  upd_out          \* what GenerateUpdateImage returned

sessionVars ==
  <<com_port, connected, lcd_serial, inbuf, leaked, teardowns, exitWrites, restarted, handshaken>>
callVars == <<op, args, pc, exc, wire, success_update, statusLog, discovery>>
readVars == <<looping, i, raw, response>>
frameVars == <<sm_in, sm_out, enc_in, full_out, upd_out>>
vars == <<sessionVars, callVars, readVars, frameVars>>

NoArgs == [img |-> 1, x |-> 0, y |-> 0, expect |-> None, fail |-> TRUE]

\* the arguments the caller passes
ShowArgs == { [NoArgs EXCEPT !.img = png] : png \in ShowImages }
UpdArgs == { [NoArgs EXCEPT !.x = u[1], !.y = u[2], !.img = u[3]] : u \in UpdateArgs }
ReadArgs == { [NoArgs EXCEPT !.expect = e, !.fail = f] : e \in ExpectArgs, f \in BOOLEAN }
OpNames == { "none", "connect", "__del__", "show_image", "update_image", "restart", "ReadReply" }

\* the instructions of operation o called with arguments a
Body(o, a) ==
  CASE o = "connect" -> connect
    [] o = "__del__" -> __del__
    [] o = "show_image" -> show_image(Images[a.img])
    [] o = "update_image" -> update_image(a.x, a.y, Images[a.img])
    [] o = "restart" -> restart
    [] o = "ReadReply" -> << IReadExpect(a.expect, a.fail) >>
    [] OTHER -> << >>

\* Body, tabulated over the calls the caller makes
Bodies ==
  [o \in OpNames |-> [a \in {NoArgs} \cup ShowArgs \cup UpdArgs \cup ReadArgs |-> Body(o, a)]]

Cur == Bodies[op][args][pc]
At(k) == pc > 0 /\ Cur.k = k

\* a transport call of the trace
Event(e) == [ev |-> e, msg |-> <<>>, n |-> 0, pad |-> <<>>]
WriteEvent(M, PadValue) ==
  [ev |-> "write", msg |-> M, n |-> Len(PadMSG(M, PadValue)), pad |-> FromHex(PadValue)]

\* consecutive reads are one "read" entry of the trace
WithRead(w) ==
  IF Len(w) > 0 /\ w[Len(w)].ev = "read" THEN w ELSE Append(w, Event("read"))

\* the operation goes on with its next instruction, or returns
Advance ==
  /\ pc' = IF pc = Len(Bodies[op][args]) THEN 0 ELSE pc + 1
  /\ exc' = "none"

\* the operation ends with exception e
Raise(e) ==
  /\ pc' = 0
  /\ exc' = e

\* the calls SendMSG makes on the port without the flush of the input
SendCalls_unflushed(M, PadValue) == << WriteEvent(M, PadValue) >>

\* the calls SendMSG makes on the port: lcd_serial.flushInput(), then
\* lcd_serial.write(MSG)
SendCalls(M, PadValue) == << Event("flush"), WriteEvent(M, PadValue) >>

\* the input buffer after one call on the port: flushInput() discards what
\* is pending; after write() the reply arrives behind what is still pending
AfterCall(buf, e) ==
  CASE e.ev = "flush" -> "empty"
    [] e.ev = "write" -> (IF buf = "empty" THEN "fresh" ELSE "stale")
    [] OTHER -> buf

RECURSIVE AfterCalls(_, _)
AfterCalls(buf, es) ==
  IF Len(es) = 0 THEN buf ELSE AfterCalls(AfterCall(buf, Head(es)), Tail(es))

\* no discovery was run
NoDiscovery == [ran |-> FALSE, found |-> <<>>]

\* the exception of a call on self.lcd_serial when it is not an open port:
\* None has no such attribute, a closed Serial raises PortNotOpenError
NoPortError == IF lcd_serial = "None" THEN "AttributeError" ELSE "PortNotOpenError"

InitSession ==
  /\ com_port \in PortArgs
  /\ connected = FALSE
  /\ lcd_serial = "None"
  /\ inbuf = "empty"
  /\ leaked = 0
  /\ op = "none"
  /\ args = NoArgs
  /\ pc = 0
  /\ exc = "none"
  /\ looping = FALSE
  /\ i = 0
  /\ raw = <<>>
  /\ response = None
  /\ success_update = FALSE
  /\ statusLog = <<>>
  /\ wire = <<>>
  /\ teardowns = 0
  /\ exitWrites = 0
  /\ restarted = FALSE
  /\ handshaken = FALSE
  /\ discovery = NoDiscovery

\* no message was framed, no image was encoded
NoFrame ==
  /\ sm_in = [msg |-> <<>>, pad |-> Pad00]
  /\ sm_out = [done |-> FALSE, bytes |-> <<>>]

\* GenerateUpdateImage was not called
NoUpdate ==
  [done |-> FALSE, by |-> "none", raised |-> FALSE, MSG |-> <<>>, UPD_Size |-> <<>>]

NoEncoding ==
  /\ enc_in = [img |-> Image(1, 1, 4, 0), x |-> 0, y |-> 0]
  /\ full_out = [done |-> FALSE, bytes |-> <<>>]
  /\ upd_out = NoUpdate

Init ==
  /\ InitSession
  /\ NoFrame
  /\ NoEncoding

(***************************************************************************)
(* The caller: it starts an operation when none is running.                *)
(***************************************************************************)
Call(o, a) ==
  /\ pc = 0
  /\ op' = o
  /\ args' = a
  /\ pc' = 1
  /\ exc' = "none"
  /\ wire' = <<>>
  /\ success_update' = FALSE
  /\ statusLog' = <<>>
  /\ discovery' = NoDiscovery
  /\ looping' = FALSE
  /\ i' = 0
  /\ raw' = <<>>
  /\ response' = None
  /\ UNCHANGED frameVars

\* FiveInchDriver(com_port): a new session, once the previous one is
\* finalized
Construct ==
  /\ pc = 0
  /\ teardowns > 0
  /\ com_port' \in PortArgs
  /\ connected' = FALSE
  /\ lcd_serial' = "None"
  /\ inbuf' = "empty"
  /\ leaked' = 0
  /\ teardowns' = 0
  /\ exitWrites' = 0
  /\ restarted' = FALSE
  /\ handshaken' = FALSE
  /\ op' = "none"
  /\ args' = NoArgs
  /\ exc' = "none"
  /\ wire' = <<>>
  /\ success_update' = FALSE
  /\ statusLog' = <<>>
  /\ discovery' = NoDiscovery
  /\ UNCHANGED <<pc, readVars, frameVars>>

CallConnect ==
  /\ lcd_serial = "open" => leaked < MaxLeaked
  /\ Call("connect", NoArgs)
  /\ UNCHANGED sessionVars

CallShowImage ==
  /\ \E a \in ShowArgs : Call("show_image", a)
  /\ UNCHANGED sessionVars

CallUpdateImage ==
  /\ \E a \in UpdArgs : Call("update_image", a)
  /\ UNCHANGED sessionVars

CallRestart ==
  /\ Call("restart", NoArgs)
  /\ UNCHANGED sessionVars

CallDel ==
  /\ teardowns < MaxTeardowns
  /\ Call("__del__", NoArgs)
  /\ teardowns' = teardowns + 1
  /\ UNCHANGED <<com_port, connected, lcd_serial, inbuf, leaked, exitWrites, restarted, handshaken>>

\* ReadReply(lcd_serial, expect, fail) called on the session's port
CallReadReply ==
  /\ \E a \in ReadArgs : Call("ReadReply", a)
  /\ UNCHANGED sessionVars

(***************************************************************************)
(* The steps of an operation.                                              *)
(***************************************************************************)
\* connect: self._handle_autodetect(); if self.com_port: serial.Serial(...)
Open ==
  /\ At("open")
  /\ \E known_devices \in Discoveries :
        LET p == HandleAutodetect(com_port, known_devices)
        IN  /\ com_port' = p
            /\ discovery' = IF com_port = None
                             THEN [ran |-> TRUE, found |-> known_devices]
                             ELSE NoDiscovery
            /\ IF Truthy(p)
               THEN /\ lcd_serial' = "open"
                    /\ inbuf' = "empty"
                    /\ leaked' = leaked + (IF lcd_serial = "open" THEN 1 ELSE 0)
                    /\ restarted' = FALSE
                    /\ wire' = Append(wire, Event("open"))
                    /\ Advance
               ELSE /\ pc' = 0
                    /\ exc' = "none"
                    /\ UNCHANGED <<lcd_serial, inbuf, leaked, restarted, wire>>
  /\ UNCHANGED <<connected, teardowns, exitWrites, handshaken>>
  /\ UNCHANGED <<op, args, success_update, statusLog, readVars, frameVars>>

\* SendMSG: convert, pad, lcd_serial.flushInput(), lcd_serial.write(MSG)
Send ==
  /\ At("send")
  /\ IF ~MsgConverts(Cur.msg)
     THEN /\ Raise("ValueError")
          /\ UNCHANGED <<wire, inbuf, exitWrites>>
     ELSE IF lcd_serial # "open"
     THEN /\ Raise(NoPortError)
          /\ UNCHANGED <<wire, inbuf, exitWrites>>
     ELSE LET M == MsgBytes(Cur.msg)
          IN  /\ wire' = wire \o SendCalls(M, Cur.pad)
              /\ inbuf' = AfterCalls(inbuf, SendCalls(M, Cur.pad))
              /\ exitWrites' = exitWrites + (IF M = FromHex(Unknown_OnExit) THEN 1 ELSE 0)
              /\ Advance
  /\ UNCHANGED <<com_port, connected, lcd_serial, leaked, teardowns, restarted, handshaken>>
  /\ UNCHANGED <<op, args, success_update, statusLog, discovery, readVars, frameVars>>

\* ReadReply: one pass of the loop; the pass that leaves the loop also
\* makes the check of the expectation and returns or raises
Read ==
  /\ At("read")
  /\ IF lcd_serial # "open"
     THEN /\ Raise(NoPortError)
          /\ UNCHANGED <<wire, inbuf, readVars>>
     ELSE \E rawReply \in Replies :
            LET n == IF looping THEN i + 1 ELSE 1
            IN  /\ raw' = rawReply
                /\ inbuf' = "empty"
                /\ i' = n
                /\ wire' = WithRead(wire)
                /\ IF IterRaises(rawReply)
                   THEN /\ response' = PyBytes(rawReply)
                        /\ looping' = FALSE
                        /\ Raise("UnicodeDecodeError")
                   ELSE /\ response' = IterResponse(rawReply)
                        /\ IF ~LoopEnds(rawReply, n)
                           THEN /\ looping' = TRUE
                                /\ UNCHANGED <<pc, exc>>
                           ELSE /\ looping' = FALSE
                                /\ IF ExpectRaises(IterResponse(rawReply), Cur.expect, Cur.fail)
                                   THEN Raise("Exception")
                                   ELSE Advance
  /\ handshaken' = (handshaken \/ (op = "connect" /\ pc' = 0 /\ exc' = "none"))
  /\ UNCHANGED <<com_port, connected, lcd_serial, leaked, teardowns, exitWrites, restarted>>
  /\ UNCHANGED <<op, args, success_update, statusLog, discovery, frameVars>>

\* connect: self.connected = True
SetConnected ==
  /\ At("set_connected")
  /\ connected' = TRUE
  /\ Advance
  /\ UNCHANGED <<com_port, lcd_serial, inbuf, leaked, teardowns, exitWrites, restarted, handshaken>>
  /\ UNCHANGED <<op, args, wire, success_update, statusLog, discovery, readVars, frameVars>>

\* restart: self.connected = False
ClearConnected ==
  /\ At("clear_connected")
  /\ connected' = FALSE
  /\ restarted' = TRUE
  /\ Advance
  /\ UNCHANGED <<com_port, lcd_serial, inbuf, leaked, teardowns, exitWrites, handshaken>>
  /\ UNCHANGED <<op, args, wire, success_update, statusLog, discovery, readVars, frameVars>>

\* __del__: if self.connected:
IfConnected ==
  /\ At("if_connected")
  /\ IF connected
     THEN Advance
     ELSE /\ pc' = 0
          /\ exc' = "none"
  /\ UNCHANGED <<sessionVars, op, args, wire, success_update, statusLog, discovery, readVars, frameVars>>

\* OnExit: lcd_serial.close()
Close ==
  /\ At("close")
  /\ lcd_serial' = "closed"
  /\ inbuf' = "empty"
  /\ wire' = Append(wire, Event("close"))
  /\ Advance
  /\ UNCHANGED <<com_port, connected, leaked, teardowns, exitWrites, restarted, handshaken>>
  /\ UNCHANGED <<op, args, success_update, statusLog, discovery, readVars, frameVars>>

\* update_image: if "needReSend:0" in reply: success_update = True, and the
\* test of the while loop; a bytes reply makes the "in" raise TypeError
Until ==
  /\ At("until")
  /\ IF response.t # "str"
     THEN /\ statusLog' = Append(statusLog, "bytes")
          /\ Raise("TypeError")
          /\ UNCHANGED success_update
     ELSE IF Contains(TXT_needReSend0, response.v)
     THEN /\ statusLog' = Append(statusLog, "zero")
          /\ success_update' = TRUE
          /\ pc' = 0
          /\ exc' = "none"
     ELSE /\ Len(statusLog) + 1 < MaxCycles
          /\ statusLog' = Append(statusLog, "other")
          /\ pc' = 1
          /\ UNCHANGED <<exc, success_update>>
  /\ UNCHANGED <<sessionVars, op, args, wire, discovery, readVars, frameVars>>

Next ==
  \/ Construct
  \/ CallConnect
  \/ CallShowImage
  \/ CallUpdateImage
  \/ CallRestart
  \/ CallDel
  \/ CallReadReply
  \/ Open
  \/ Send
  \/ Read
  \/ SetConnected
  \/ ClearConnected
  \/ IfConnected
  \/ Close
  \/ Until

Spec == Init /\ [][Next]_vars

(***************************************************************************)
(* The framing specification: SendMSG applied once to a message of every   *)
(* length up to MaxMsgLen, with several pad values, on an open port.       *)
(***************************************************************************)
\* PadValue arguments: '00', '2c', 'ff', '01'
PadValues == { Pad00, Pad2c, <<15, 15>>, <<0, 1>> }
\* message contents: byte k of the message is (seed + 7 * k) % 256
Seeds == { 0, 37 }
TestMsg(n, seed) == [k \in 1..n |-> (seed + 7 * k) % 256]

InitSend ==
  /\ InitSession
  /\ \E n \in 0..MaxMsgLen, seed \in Seeds, p \in PadValues :
        sm_in = [msg |-> TestMsg(n, seed), pad |-> p]
  /\ sm_out = [done |-> FALSE, bytes |-> <<>>]
  /\ NoEncoding

\* SendMSG(lcd_serial, MSG, PadValue) for a bytes MSG: what it writes
SendMSG ==
  /\ ~sm_out.done
  /\ sm_out' = [done |-> TRUE, bytes |-> PadMSG(sm_in.msg, sm_in.pad)]
  /\ UNCHANGED <<sessionVars, callVars, readVars, sm_in, enc_in, full_out, upd_out>>

SpecSend == InitSend /\ [][SendMSG]_vars

(***************************************************************************)
(* C2.  For every message of length n >= 0 and every one-byte pad value,   *)
(* the bytes SendMSG writes have as length the smallest multiple of 250    *)
(* that is >= n, start with the n bytes of the message unchanged, and      *)
(* every byte after them equals the pad value.                             *)
(***************************************************************************)
C2_PaddedFrame ==
  sm_out.done =>
    LET n == Len(sm_in.msg)
        out == sm_out.bytes
        padByte == 16 * sm_in.pad[1] + sm_in.pad[2]
    IN  /\ Len(out) % 250 = 0
        /\ Len(out) >= n
        /\ Len(out) < n + 250
        /\ \A k \in 1..n : out[k] = sm_in.msg[k]
        /\ \A k \in (n + 1)..Len(out) : out[k] = padByte

\* a message of more than one block that needs padding has been written
C2_Witness ==
  /\ sm_out.done
  /\ Len(sm_in.msg) = 251
  /\ Len(sm_out.bytes) = 500
  /\ sm_in.pad = Pad2c

(***************************************************************************)
(* Vocabulary of the claims about the session.                             *)
(***************************************************************************)
IsWrite(e) == e.ev = "write"
\* the frames the operation wrote, in order
Writes == SelectSeq(wire, IsWrite)
\* the events of the operation without the flushes
NotFlush(e) == e.ev # "flush"
Calls == SelectSeq(wire, NotFlush)
\* e is the frame of command hex, padded with zeros to one block
IsFrame(e, hex) == e.ev = "write" /\ e.msg = FromHex(hex) /\ e.n = 250 /\ e.pad = <<0>>
\* e is the pre-image marker: one block of 2c
IsPreImg(e) == e.ev = "write" /\ e.msg = <<44>> /\ e.n = 250 /\ e.pad = <<44>>
\* a reply of null bytes only, of any length
AllNull(b) == \A k \in 1..Len(b) : b[k] = 0
\* a reply that starts with 5e 41 ef 69
StartsNotReady(b) == Len(b) >= 4 /\ SubSeq(b, 1, 4) = <<94, 65, 239, 105>>
\* the operation ended because its port was missing or closed
NoPort == exc \in {"AttributeError", "PortNotOpenError"}

(***************************************************************************)
(* C3.  One ReadReply call makes at least 1 and at most 5 reads: it keeps  *)
(* reading while the reply is empty (null bytes only) or starts with the   *)
(* not-ready sentinel, stops at the first reply that is neither, and after *)
(* the 5th read holds what was read last instead of reading again.         *)
(***************************************************************************)
C3_BoundedReads ==
  /\ i \in 0..5
  /\ looping => i >= 1
  /\ i >= 1 => (looping <=> (i < 5 /\ (AllNull(raw) \/ StartsNotReady(raw))))
  /\ (pc > 1 /\ ~looping /\ Bodies[op][args][pc - 1].k = "read") => i >= 1
  /\ (i = 5 /\ StartsNotReady(raw)) => response = PyBytes(raw)
  /\ (i = 5 /\ AllNull(raw)) => response = PyStr(<<>>)

\* a call returned the not-ready reply of its 5th read
C3_Witness ==
  /\ op = "connect"
  /\ pc = 4
  /\ i = 5
  /\ ~looping
  /\ StartsNotReady(raw)
  /\ response = PyBytes(raw)

(***************************************************************************)
(* C4.  A reply of null bytes only (of any length, zero included) is the   *)
(* empty reply; a reply that starts with the not-ready sentinel is kept as *)
(* raw bytes, makes the call read again (up to the 5th read), is never the *)
(* empty reply nor a text reply, and never meets an expectation.           *)
(***************************************************************************)
C4_EmptyVsNotReady ==
  i >= 1 =>
    /\ AllNull(raw) =>
         /\ response = PyStr(<<>>)
         /\ exc # "UnicodeDecodeError"
         /\ looping \/ i = 5
    /\ StartsNotReady(raw) =>
         /\ response.t = "bytes"
         /\ response.v = raw
         /\ exc # "UnicodeDecodeError"
         /\ looping \/ i = 5
         /\ (op = "ReadReply" /\ pc = 0 /\ Truthy(args.expect) /\ args.fail)
               => exc = "Exception"
         /\ (op = "connect" /\ pc = 0 /\ Len(Calls) = 7) => exc = "Exception"
         /\ ~(op = "show_image" /\ pc = 5)

\* a not-ready reply made the call read again
C4_Witness ==
  /\ StartsNotReady(raw)
  /\ looping
  /\ i = 2
  /\ response = PyBytes(raw)

(***************************************************************************)
(* C5.  ReadReply with an expectation and fail=True raises exactly when    *)
(* the reply differs from the expectation; with fail=False it never raises *)
(* and returns the reply; with no expectation it never raises, whatever    *)
(* the reply.  (An empty expectation counts as none: "if expect:".)        *)
(***************************************************************************)
C5_Claim ==
  (op = "ReadReply" /\ pc = 0 /\ handshaken /\ lcd_serial = "open") =>
    IF Truthy(args.expect) /\ args.fail
    THEN (exc # "none") <=> (Str(response) # args.expect.v)
    ELSE exc = "none"

(***************************************************************************)
(* C6.  connect() with a port writes exactly the frames Get_Device,        *)
(* Stop_Video, Media_Stop, in that order, with a reply read after each     *)
(* write; it returns only if the reply to Media_Stop is 'media_stop' and   *)
(* raises otherwise.                                                       *)
(***************************************************************************)
C6_Claim ==
  (op = "connect" /\ pc = 0 /\ Len(wire) > 0) =>
    /\ Len(Calls) = 7
    /\ Calls[1].ev = "open"
    /\ IsFrame(Calls[2], Get_Device)
    /\ Calls[3].ev = "read"
    /\ IsFrame(Calls[4], Stop_Video)
    /\ Calls[5].ev = "read"
    /\ IsFrame(Calls[6], Media_Stop)
    /\ Calls[7].ev = "read"
    /\ (exc = "none") <=> (response = PyStr(TXT_media_stop))

\* C6 with the one exception the code makes: a read that raises
\* UnicodeDecodeError ends connect() after the frames written so far
C6_UpToDecoding ==
  (op = "connect" /\ pc = 0 /\ Len(wire) > 0) =>
    /\ Calls[1].ev = "open"
    /\ Len(Calls) >= 2 => IsFrame(Calls[2], Get_Device)
    /\ Len(Calls) >= 3 => Calls[3].ev = "read"
    /\ Len(Calls) >= 4 => IsFrame(Calls[4], Stop_Video)
    /\ Len(Calls) >= 5 => Calls[5].ev = "read"
    /\ Len(Calls) >= 6 => IsFrame(Calls[6], Media_Stop)
    /\ Len(Calls) >= 7 => Calls[7].ev = "read"
    /\ Len(Calls) <= 7
    /\ exc # "UnicodeDecodeError" => Len(Calls) = 7
    /\ (exc = "none") <=> (Len(Calls) = 7 /\ response = PyStr(TXT_media_stop))

(***************************************************************************)
(* C7.  show_image writes the pre-image marker (a block of 2c), then       *)
(* Display_Full_IMAGE, then the encoded image, then reads the              *)
(* acknowledgement; it writes the post-image marker and then the           *)
(* render-status query only if the acknowledgement is 'full_png_sucess';   *)
(* on a mismatch it raises and writes no further frame.                    *)
(***************************************************************************)
C7_Order ==
  op = "show_image" =>
    /\ Len(Writes) <= 5
    /\ Len(Writes) >= 1 => IsPreImg(Writes[1])
    /\ Len(Writes) >= 2 => IsFrame(Writes[2], Display_Full_IMAGE)
    /\ Len(Writes) >= 3 =>
         /\ Writes[3].msg = GenerateFullImage(Images[args.img])
         /\ Writes[3].pad = <<0>>
    /\ Len(Writes) >= 4 => IsFrame(Writes[4], PostImgCMD)
    /\ Len(Writes) >= 5 => IsFrame(Writes[5], Query_Render_Status)
    \* no reply is read before the image is written, one after each later
    \* frame
    /\ \A k \in 1..Len(Calls) :
          (Calls[k].ev = "read") <=> (k \in {4, 6, 8})
    \* with a port, the first three frames are always written and the
    \* acknowledgement read
    /\ (pc = 0 /\ ~NoPort) => Len(Calls) >= 4
    \* a mismatch raises and leaves it at three frames
    /\ (pc = 0 /\ Len(Calls) = 4 /\ exc # "UnicodeDecodeError")
          => (exc = "Exception" /\ response # PyStr(TXT_full_png_sucess))
    /\ (pc = 5) => response = PyStr(TXT_full_png_sucess)

\* the step that writes the post-image marker is taken with the
\* acknowledgement 'full_png_sucess' just read
C7_PostNeedsAck ==
  (op = "show_image" /\ Len(Writes) = 3 /\ Len(Writes') = 4)
     => response = PyStr(TXT_full_png_sucess)

C7_ShowImage == []C7_Order /\ [][C7_PostNeedsAck]_vars

\* show_image returned after all five frames
C7_Witness ==
  /\ op = "show_image"
  /\ pc = 0
  /\ exc = "none"
  /\ Len(Writes) = 5
  /\ IsFrame(Writes[5], Query_Render_Status)

(***************************************************************************)
(* C1.  update_image performs exactly k send cycles, k being the position  *)
(* of the first render-status reply that holds needReSend:0: every status  *)
(* reply without it (a nonzero count, an empty reply, any other reply)     *)
(* starts another cycle, and the first reply with it ends the operation    *)
(* normally.                                                               *)
(***************************************************************************)
\* the send cycles started: each starts with the pre-image marker
CyclesStarted == Len(SelectSeq(wire, IsPreImg))

C1_Claim ==
  (op = "update_image" /\ handshaken) =>
    LET k == Len(statusLog)
    IN  /\ \A j \in 1..(k - 1) : statusLog[j] # "zero"
        /\ (pc = 0 /\ exc = "none") => (k >= 1 /\ statusLog[k] = "zero")
        /\ (k >= 1 /\ statusLog[k] = "zero")
              => (pc = 0 /\ exc = "none" /\ CyclesStarted = k)
        /\ (k >= 1 /\ statusLog[k] # "zero") => (pc = 1 \/ CyclesStarted = k + 1)

\* C1 for the status replies ReadReply returns as text
C1_TextReplies ==
  op = "update_image" =>
    LET k == Len(statusLog)
    IN  /\ \A j \in 1..(k - 1) : statusLog[j] = "other"
        /\ (pc = 0 /\ exc = "none") => (k >= 1 /\ statusLog[k] = "zero")
        /\ (k >= 1 /\ statusLog[k] = "zero")
              => (pc = 0 /\ exc = "none" /\ CyclesStarted = k)
        /\ (k >= 1 /\ statusLog[k] = "other") => (pc = 1 \/ CyclesStarted = k + 1)
        /\ (k >= 1 /\ statusLog[k] = "bytes") => (pc = 0 /\ exc = "TypeError")

C8_ExitBeforeClose ==
  op = "__del__" =>
    /\ Len(Calls) <= 2
    /\ Len(Calls) >= 1 => IsFrame(Calls[1], Unknown_OnExit)
    /\ Len(Calls) = 2 => Calls[2].ev = "close"
    /\ (pc = 0 /\ exc = "none" /\ connected) => Len(Calls) = 2
    /\ (pc = 0 /\ exc # "none") => (Len(Calls) = 0 /\ exc = "PortNotOpenError")

(***************************************************************************)
(* C9.  Every port connect() opened is closed once the session is torn     *)
(* down, on every path: after a handshake that succeeded or failed, after  *)
(* an operation that raised, after restart().                              *)
(***************************************************************************)
C9_Claim ==
  (op = "__del__" /\ pc = 0) => (lcd_serial # "open" /\ leaked = 0)

\* C9 on the path through restart() alone: handshake, restart(), __del__
C9_AfterRestart ==
  (op = "__del__" /\ pc = 0 /\ handshaken /\ restarted /\ leaked = 0)
     => lcd_serial # "open"

(***************************************************************************)
(* C10.  restart() writes the Restart frame and marks the session          *)
(* disconnected, and from then until connect() has run again show_image    *)
(* and update_image write no frame.                                        *)
(***************************************************************************)
C10_Claim ==
  /\ (op = "restart" /\ pc = 0 /\ exc = "none")
        => (Len(Writes) = 1 /\ IsFrame(Writes[1], Restart) /\ ~connected /\ restarted)
  /\ (handshaken /\ restarted /\ op \in {"show_image", "update_image"})
        => Len(Writes) = 0

\* the first half of C10 holds
C10_RestartFrame ==
  (op = "restart" /\ pc = 0 /\ exc = "none")
     => (Len(Writes) = 1 /\ IsFrame(Writes[1], Restart) /\ ~connected /\ restarted)

(***************************************************************************)
(* C11.  When no port was supplied and the discovery returns zero or more  *)
(* than one device path, no path is selected: connect() opens no port,     *)
(* writes no frame and leaves the session not connected.  When the         *)
(* discovery returns exactly one path, that path is the port connect()     *)
(* opens.  When a port was supplied the discovery does not change it.      *)
(***************************************************************************)
\* connect() has made its first step
Resolved == op = "connect" /\ pc # 1

C11_Selection ==
  (Resolved /\ discovery.ran) =>
    IF Len(discovery.found) = 1
    THEN /\ com_port = discovery.found[1]
         /\ Len(wire) >= 1
         /\ wire[1].ev = "open"
         /\ lcd_serial = "open"
    ELSE /\ com_port = None
         /\ wire = <<>>
         /\ pc = 0
         /\ exc = "none"
         /\ lcd_serial = "None"
         /\ ~connected

\* the first step of connect() with a port leaves the port as it is and
\* runs no discovery
C11_SuppliedKept ==
  (op = "connect" /\ pc = 1 /\ com_port # None)
     => (com_port' = com_port /\ ~discovery'.ran /\ lcd_serial' = "open")

C11_Autodetect == []C11_Selection /\ [][C11_SuppliedKept]_vars

\* the discovery found two devices and connect() returned without a port
C11_Witness ==
  /\ op = "connect"
  /\ pc = 0
  /\ discovery.ran
  /\ Len(discovery.found) = 2
  /\ com_port = None
  /\ wire = <<>>

(***************************************************************************)
(* C12.  Every transmit is followed by a read before the next transmit:    *)
(* in no operation of the session are two frames written without a reply   *)
(* read between them.                                                      *)
(***************************************************************************)
\* events k and k + 1 of the operation are both writes
WriteWrite(k) == Calls[k].ev = "write" /\ Calls[k + 1].ev = "write"

C12_Claim ==
  handshaken => \A k \in 1..(Len(Calls) - 1) : ~WriteWrite(k)

\* C12 as the code has it: show_image and update_image write the pre-image
\* marker, the command frame and the image data back to back and read one
\* reply after the image data; no other two frames are written without a
\* read between them, and restart() and __del__ write one frame and read
\* no reply
C12_ReadBetween ==
  /\ \A k \in 1..(Len(Calls) - 1) :
        WriteWrite(k) =>
           /\ op \in {"show_image", "update_image"}
           /\ IsPreImg(Calls[k]) \/ (k >= 2 /\ IsPreImg(Calls[k - 1]))
  /\ \A k \in 1..Len(Calls) :
        IsPreImg(Calls[k]) =>
           /\ k + 1 <= Len(Calls) => Calls[k + 1].ev = "write"
           /\ k + 2 <= Len(Calls) => Calls[k + 2].ev = "write"
           /\ k + 3 <= Len(Calls) => Calls[k + 3].ev = "read"
  /\ op \in {"restart", "__del__"} =>
        /\ Len(Writes) <= 1
        /\ \A k \in 1..Len(Calls) : Calls[k].ev # "read"
  /\ (op = "connect" /\ pc = 0 /\ exc = "none" /\ Len(Calls) > 0) =>
        \A k \in 1..Len(Calls) :
           Calls[k].ev = "write" => (k < Len(Calls) /\ Calls[k + 1].ev = "read")

\* update_image returned after two send cycles
C12_Witness ==
  /\ op = "update_image"
  /\ pc = 0
  /\ exc = "none"
  /\ Len(Writes) = 10
  /\ WriteWrite(1)
  /\ WriteWrite(2)
  /\ Calls[4].ev = "read"

(***************************************************************************)
(* C13.  Every write to the transport is immediately preceded by a flush   *)
(* of the pending input, with no read (nor any other call) between the     *)
(* flush and the write, so that a reply read after a send never holds      *)
(* bytes that were pending before that send.                               *)
(***************************************************************************)
C13_FlushBeforeWrite ==
  /\ \A k \in 1..Len(wire) :
        wire[k].ev = "write" => (k >= 2 /\ wire[k - 1].ev = "flush")
  /\ \A k \in 1..Len(wire) :
        wire[k].ev = "flush" => (k < Len(wire) /\ wire[k + 1].ev = "write")
  /\ inbuf # "stale"

\* show_image read its acknowledgement after three frames written back to
\* back: the replies to the first two were pending at the third send
C13_Witness ==
  /\ op = "show_image"
  /\ pc = 5
  /\ Len(wire) = 7
  /\ wire[5].ev = "flush"
  /\ wire[6].ev = "write"
  /\ wire[7].ev = "read"
  /\ inbuf = "empty"
  /\ response = PyStr(TXT_full_png_sucess)

(***************************************************************************)
(* The full-frame encoder specification: GenerateFullImage applied once to *)
(* an image of every shape up to FullMaxRows x FullMaxCols, with 3 and     *)
(* with 4 channels.                                                        *)
(***************************************************************************)
InitFull ==
  /\ InitSession
  /\ NoFrame
  /\ \E r \in 1..FullMaxRows, c \in 1..FullMaxCols, ch \in {3, 4}, seed \in Seeds :
        enc_in = [img |-> Image(r, c, ch, seed), x |-> 0, y |-> 0]
  /\ full_out = [done |-> FALSE, bytes |-> <<>>]
  /\ upd_out = NoUpdate

\* image = GenerateFullImage(png_path)
CallGenerateFullImage ==
  /\ ~full_out.done
  /\ full_out' = [done |-> TRUE, bytes |-> GenerateFullImage(enc_in.img)]
  /\ UNCHANGED <<sessionVars, callVars, readVars, sm_in, sm_out, enc_in, upd_out>>

SpecFull == InitFull /\ [][CallGenerateFullImage]_vars

(***************************************************************************)
(* C14.  For a 4-channel pixel byte stream of n bytes the full-frame       *)
(* encoding holds exactly ceil(n/249) - 1 inserted null bytes, one after   *)
(* each complete run of 249 source bytes that more data follows, and       *)
(* without the inserted bytes it is the source stream, byte for byte.      *)
(***************************************************************************)
C14_Separators ==
  full_out.done =>
    LET src == ImageBytes(enc_in.img)
        n == Len(src)
        out == full_out.bytes
        seps == ((n + 248) \div 249) - 1
    IN  /\ Len(out) = n + seps
        \* the inserted bytes: one after each run that more data follows
        /\ \A j \in 1..seps : out[250 * j] = 0
        \* the other bytes are the source, in order
        /\ \A k \in 1..n : out[k + ((k - 1) \div 249)] = src[k]

\* an image of exactly four runs of 249 bytes: three separators, none at
\* the end
C14_Witness ==
  /\ full_out.done
  /\ enc_in.img.rows * enc_in.img.cols = 249
  /\ enc_in.img.ch = 3
  /\ Len(full_out.bytes) = 999
  /\ full_out.bytes[999] # 0

(***************************************************************************)
(* The partial-update encoder specification: GenerateUpdateImage of the    *)
(* driver and of src/5inch.py, each applied once to an image of every      *)
(* shape up to UpdMaxRows x UpdMaxCols at two origins inside the screen.   *)
(***************************************************************************)
\* the (x, y) of the region's origin
UpdOrigins == { <<0, 0>>, <<473, 773>> }

InitUpdate ==
  /\ InitSession
  /\ com_port = None
  /\ NoFrame
  /\ \E r \in 1..UpdMaxRows, c \in 1..UpdMaxCols, ch \in {3, 4}, o \in UpdOrigins :
        enc_in = [img |-> Image(r, c, ch, 200), x |-> o[1], y |-> o[2]]
  /\ full_out = [done |-> FALSE, bytes |-> <<>>]
  /\ upd_out = NoUpdate

\* what a call returns: (MSG, UPD_Size), or nothing when it raised
Returned(who, raises, g) ==
  IF raises
  THEN [done |-> TRUE, by |-> who, raised |-> TRUE, MSG |-> <<>>, UPD_Size |-> <<>>]
  ELSE [done |-> TRUE, by |-> who, raised |-> FALSE, MSG |-> g.MSG, UPD_Size |-> g.UPD_Size]

\* MSG, UPD_Size = GenerateUpdateImage(png_path, x, y) of the driver
CallGenerateUpdateImage ==
  /\ ~upd_out.done
  /\ upd_out' = Returned("driver", UpdateRaises(enc_in.img),
                         GenerateUpdateImage(enc_in.img, enc_in.x, enc_in.y))
  /\ UNCHANGED <<sessionVars, callVars, readVars, sm_in, sm_out, enc_in, full_out>>

\* the same call in src/5inch.py
CallScriptGenerateUpdateImage ==
  /\ ~upd_out.done
  /\ upd_out' = Returned("script", Script_UpdateRaises(enc_in.img),
                         Script_GenerateUpdateImage(enc_in.img, enc_in.x, enc_in.y))
  /\ UNCHANGED <<sessionVars, callVars, readVars, sm_in, sm_out, enc_in, full_out>>

NextUpdate == CallGenerateUpdateImage \/ CallScriptGenerateUpdateImage

SpecUpdate == InitUpdate /\ [][NextUpdate]_vars

(***************************************************************************)
(* Vocabulary of the claims about the partial-update encoder.  In the      *)
(* encoder width is image.shape[0] and height is image.shape[1].           *)
(***************************************************************************)
UWidth == enc_in.img.rows
UHeight == enc_in.img.cols
\* hex characters of the row stream: per row 6 + 4 + 6 * width
RowChars == 10 + 6 * UWidth
StreamChars == UHeight * RowChars
\* the '00' separators GenerateUpdateImage inserts in a stream of L characters
SepCount(L) == IF L > 500 THEN ((L + 497) \div 498) - 1 ELSE 0
\* the number a sequence of hex digits denotes
RECURSIVE HexVal(_)
HexVal(h) == IF Len(h) = 0 THEN 0 ELSE 16 * HexVal(SubSeq(h, 1, Len(h) - 1)) + h[Len(h)]
\* the encoder returned a result
Encoded == upd_out.done /\ ~upd_out.raised

(***************************************************************************)
(* C15.  The size field the partial-update encoder returns is (hex         *)
(* characters of the row stream / 2) + 2, that is height * (5 + 3 * width) *)
(* + 2, the row stream being measured before the 00 separators and the     *)
(* ef69 trailer are added: the separators are not counted.                 *)
(***************************************************************************)
C15_SizeField ==
  Encoded =>
    /\ HexVal(upd_out.UPD_Size) = (UHeight * (5 + 3 * UWidth)) + 2
    /\ 2 * HexVal(upd_out.UPD_Size) = StreamChars + 4
    \* the stream returned is longer by its separators
    /\ Len(upd_out.MSG) = (2 * HexVal(upd_out.UPD_Size)) + (2 * SepCount(StreamChars))

\* a row stream of 996 characters: one separator, size field 500
C15_Witness ==
  /\ Encoded
  /\ upd_out.by = "driver"
  /\ StreamChars = 996
  /\ Len(upd_out.MSG) = 1002
  /\ upd_out.UPD_Size = <<0, 1, 15, 4>>

(***************************************************************************)
(* C16.  For every update region inside the 800x480 screen every numeric   *)
(* field of the partial-update message has exactly its number of hex       *)
(* digits: 6 for each row offset, 4 for the width, 2 for each channel      *)
(* byte, 4 for the size field appended to the Update_IMG opcode, so that   *)
(* the opcode frame and the row stream are whole-byte hex strings.         *)
(***************************************************************************)
\* the region lies inside the screen: lines x .. x + height - 1 of 480,
\* positions y .. y + width - 1 of a line of 800
InScreen == enc_in.x + UHeight <= 480 /\ enc_in.y + UWidth <= SCREEN_HEIGHT

\* character k (1-based) of the row stream, read back from the stream
\* returned: after every 498 characters of it two separator characters
\* were inserted when it has more than 500
StreamChar(k) ==
  IF StreamChars > 500 THEN upd_out.MSG[k + 2 * ((k - 1) \div 498)] ELSE upd_out.MSG[k]

\* the number in the n characters that follow character k of the row stream
Field(k, n) == HexVal([j \in 1..n |-> StreamChar(k + j)])

\* the offset and width fields stand at their fixed places in every row
\* record, which has 10 + 6 * width characters
C16_RowFields ==
  (Encoded /\ InScreen) =>
    /\ Len(upd_out.MSG) = StreamChars + (2 * SepCount(StreamChars)) + 4
    /\ Len(upd_out.MSG) % 2 = 0
    /\ \A h \in 0..(UHeight - 1) :
          /\ Field(h * RowChars, 6) = ((enc_in.x + h) * SCREEN_HEIGHT) + enc_in.y
          /\ Field((h * RowChars) + 6, 4) = UWidth

\* the region update_image was called with lies inside the screen
ArgInScreen ==
  /\ args.x + Images[args.img].cols <= 480
  /\ args.y + Images[args.img].rows <= SCREEN_HEIGHT

\* update_image: the second frame is the Update_IMG opcode (5 bytes) with
\* a size field of 4 digits (2 bytes), and no frame fails to convert
C16_Claim ==
  (op = "update_image" /\ handshaken /\ ArgInScreen) =>
    /\ exc # "ValueError"
    /\ Len(Writes) >= 2 => Len(Writes[2].msg) = 7

(***************************************************************************)
(* C17.  A pixel buffer with a non-positive width or height is rejected    *)
(* before any encoding: the partial-update encoder returns no stream and   *)
(* no size field for it, and update_image writes no frame.                 *)
(***************************************************************************)
\* the buffer update_image was called with has no pixel
ArgDegenerate == Images[args.img].rows <= 0 \/ Images[args.img].cols <= 0

C17_Unchecked ==
  (op = "update_image" /\ ArgDegenerate) =>
    /\ Len(Writes) >= 2 => Writes[2].msg = FromHex(Update_IMG \o <<0, 0, 0, 2>>)
    /\ Len(Writes) >= 3 => Writes[3].msg = <<239, 105>>
    /\ exc \notin {"ValueError", "IndexError"}

(***************************************************************************)
(* C18.  For a pixel buffer of any shape, square or not, the               *)
(* partial-update encoder of both variants emits one row record per h in   *)
(* [0, height): the offset (x + h) * 800 + y, the width, then exactly      *)
(* width pixel triplets; every pixel it reads lies inside the buffer, and  *)
(* each pixel of the buffer is emitted exactly once.                       *)
(***************************************************************************)
\* the index pair the variant that ran reads for column w of row record h
ReadIndex(w, h) ==
  IF upd_out.by = "script" THEN ScriptIndex(w, h) ELSE DriverIndex(w, h)

\* the (w, h) of the loops
LoopPairs == (0..(UWidth - 1)) \X (0..(UHeight - 1))

\* the call returned, its reads were inside the buffer and met each pixel
\* once, and the stream returned holds the row records
RowRecords ==
  /\ ~upd_out.raised
  /\ \A p \in LoopPairs : InBounds(enc_in.img, ReadIndex(p[1], p[2]))
  /\ \A r \in 0..(enc_in.img.rows - 1), c \in 0..(enc_in.img.cols - 1) :
        Cardinality({p \in LoopPairs : ReadIndex(p[1], p[2]) = <<r, c>>}) = 1
  /\ Len(upd_out.MSG) = StreamChars + (2 * SepCount(StreamChars)) + 4
  /\ \A h \in 0..(UHeight - 1) :
        /\ Field(h * RowChars, 6) = ((enc_in.x + h) * SCREEN_HEIGHT) + enc_in.y
        /\ Field((h * RowChars) + 6, 4) = UWidth
        /\ \A w \in 0..(UWidth - 1), k \in 0..2 :
              Field((h * RowChars) + 10 + (6 * w) + (2 * k), 2)
                 = Elem(enc_in.img, ReadIndex(w, h)[1], ReadIndex(w, h)[2], k)

C18_Claim == upd_out.done => RowRecords

\* C18 holds of the driver, which reads image[w][h], and of src/5inch.py,
\* which reads image[h][w], on square buffers; on every other buffer
\* src/5inch.py raises IndexError
C18_DriverAndSquare ==
  upd_out.done =>
    IF upd_out.by = "driver" \/ enc_in.img.rows = enc_in.img.cols
    THEN RowRecords
    ELSE upd_out.raised

(***************************************************************************)
(* C19.  Block alignment of the partial-update stream: in the byte stream  *)
(* the encoder returns (row records, inserted 00 separators, ef69          *)
(* trailer) every byte at a 0-based index i with i mod 250 = 249 is an     *)
(* inserted 00 separator, never a header, pixel or trailer byte; row       *)
(* streams of exactly 500 hex characters and of a multiple of 498          *)
(* characters included.                                                    *)
(***************************************************************************)
\* the bytes of the stream returned
UpdBytes == FromHex(upd_out.MSG)

\* the byte at 0-based index n is one of the separators the join inserted:
\* separator j (1-based) stands behind j runs of 249 bytes
IsSeparator(n) ==
  /\ n % 250 = 249
  /\ (n \div 250) + 1 <= SepCount(StreamChars)
  /\ UpdBytes[n + 1] = 0

\* every byte at an index n with n mod 250 = 249 is an inserted separator
Aligned == \A n \in 0..(Len(UpdBytes) - 1) : (n % 250 = 249) => IsSeparator(n)

C19_Claim == Encoded => Aligned

\* the streams the code does align: those of more than 500 characters
\* whose last run leaves room for the trailer, and those shorter than a
\* block; it does not align the others
C19_AlignedWhen ==
  Encoded =>
    LET rest == StreamChars % 498
    IN  /\ (StreamChars > 500 /\ rest \notin {0, 496}) => Aligned
        /\ StreamChars < 496 => Aligned
        /\ (StreamChars \in {496, 498, 500} \/ (StreamChars > 500 /\ rest \in {0, 496}))
              => ~Aligned

(***************************************************************************)
(* C20.  For every sequence of read results, five consecutive replies that *)
(* start with the not-ready sentinel included, ReadReply returns a decoded *)
(* text value (possibly empty), so that the test of the resend marker in   *)
(* update_image is always retry or success and never ends the operation    *)
(* with an error.                                                          *)
(***************************************************************************)
\* the last ReadReply call of the operation left its read loop with a reply
LoopLeft ==
  op # "none" /\ i >= 1 /\ ~looping /\ exc # "UnicodeDecodeError" /\ ~NoPort

C20_Claim ==
  handshaken =>
    /\ LoopLeft => response.t = "str"
    /\ op = "update_image" => exc # "TypeError"

\* what ReadReply returns: text, except after a 5th read that was not-ready,
\* when it returns the bytes read; update_image then raises TypeError
C20_TextUnlessNotReady ==
  /\ LoopLeft =>
        \/ response.t = "str"
        \/ (i = READ_ATTEMPTS /\ StartsNotReady(raw) /\ response = PyBytes(raw))
  /\ (op = "update_image" /\ exc = "TypeError") =>
        (i = READ_ATTEMPTS /\ StartsNotReady(raw) /\ Len(Writes) % 5 = 0)

===========================================================================
